---- MODULE Spec2Model ----
(***************************************************************************)
(* Model of the azka-blog front-end: the index view (src/app/page.tsx),    *)
(* the detail view and its metadata hook (src/app/blog/[slug]/page.tsx)    *)
(* and the Sanity client they share (src/unnamed/part_000).                *)
(*                                                                         *)
(* The content lake is a bag of documents.  A nullable value (a GROQ null, *)
(* a JavaScript null or undefined) is the empty tuple None; a value that   *)
(* is there is the one-element tuple Some(v).                              *)
(***************************************************************************)
EXTENDS Integers, Sequences, FiniteSets, Bags, TLC

VARIABLES
    cms,        \* the content lake: a bag of documents
    cachePosts, \* the data-cache entry of POSTS_QUERY
    cachePost,  \* the data-cache entries of POST_QUERY, one per $slug
    req,        \* the slug of the detail request being served, if any
    metadata,   \* what generateMetadata returned for that request
    page,       \* what PostPage returned for that request
    indexView   \* what BlogIndexPage returned last

vars == <<cms, cachePosts, cachePost, req, metadata, page, indexView>>

----------------------------------------------------------------------------
(* Nullable values *)

None == <<>>
Some(v) == <<v>>

\* a ?? b
Coalesce(a, b) == IF a # None THEN a ELSE b

\* String truthiness: s && ...
TruthyStr(s) == s # None /\ s[1] # ""

\* Array guard: xs && xs.length > 0
NonEmptyArr(xs) == xs # None /\ Len(xs[1]) > 0

----------------------------------------------------------------------------
(* Bounds and program constants *)

MaxPosts == 2
MaxIndexPosts == 14
MaxBody == 2

PostsLimit == 12
InlineImageWidth == 800
InlineImageHeight == 450
MainImageWidth == 1200
MainImageHeight == 675

Statuses == {"draft", "published", "archived"}
Slugs == {"a", "b"}

----------------------------------------------------------------------------
(* Documents *)

BaseDoc ==
    [_type |-> "post", title |-> "t1", slug |-> Some("a"),
     publishedAt |-> Some(1), status |-> "published", excerpt |-> None,
     body |-> <<>>, author |-> Some([name |-> "ann"]), categories |-> None,
     mainImage |-> None, tags |-> None, seo |-> None]

\* The documents of the default specification: a post in each status, an
\* edited version of the published post, a published post without a slug
\* and a document that is not a post.
SpecDocs ==
    {[BaseDoc EXCEPT !.status = s] : s \in Statuses}
    \cup {[BaseDoc EXCEPT !.title = "t2", !.publishedAt = Some(2)]}
    \cup {[BaseDoc EXCEPT !.slug = None]}
    \cup {[BaseDoc EXCEPT !._type = "page"]}

----------------------------------------------------------------------------
(* POSTS_QUERY: src/app/page.tsx *)

\* The filter with its status test left out.
IndexFilterNoStatus(d) ==
    /\ d._type = "post"
    /\ d.slug # None
    /\ d.publishedAt # None

\* _type == "post" && defined(slug.current) && defined(publishedAt)
\*   && status == "published"
IndexFilter(d) ==
    /\ d._type = "post"
    /\ d.slug # None
    /\ d.publishedAt # None
    /\ d.status = "published"

\* *[...]: the documents of the lake that pass the filter.
Filtered(db) == [d \in {x \in DOMAIN db : IndexFilter(x)} |-> db[d]]

\* order(publishedAt asc): the order the query would give without "desc".
RECURSIVE OrderAsc(_)
OrderAsc(b) ==
    IF DOMAIN b = {} THEN <<>>
    ELSE LET d == CHOOSE x \in DOMAIN b :
                    \A e \in DOMAIN b : x.publishedAt[1] <= e.publishedAt[1]
         IN  <<d>> \o OrderAsc(b (-) SetToBag({d}))

\* | order(publishedAt desc): the documents of a bag, latest first.  The
\* order among documents of equal publishedAt is not specified by the query;
\* the model takes one.
RECURSIVE OrderDesc(_)
OrderDesc(b) ==
    IF DOMAIN b = {} THEN <<>>
    ELSE LET d == CHOOSE x \in DOMAIN b :
                    \A e \in DOMAIN b : e.publishedAt[1] <= x.publishedAt[1]
         IN  <<d>> \o OrderDesc(b (-) SetToBag({d}))

\* [0..12], the inclusive range: one entry more.
SliceOneMore(s) ==
    SubSeq(s, 1, IF Len(s) < PostsLimit + 1 THEN Len(s) ELSE PostsLimit + 1)

\* [0...12]
Slice(s) == SubSeq(s, 1, IF Len(s) < PostsLimit THEN Len(s) ELSE PostsLimit)

\* { _id, title, slug, publishedAt, "author": author->{name},
\*   "categories": categories[]->{title} }
IndexProjection(d) ==
    [title |-> d.title, slug |-> d.slug, publishedAt |-> d.publishedAt,
     author |-> d.author, categories |-> d.categories]

POSTS_QUERY(db) ==
    LET s == Slice(OrderDesc(Filtered(db)))
    IN  [i \in 1..Len(s) |-> IndexProjection(s[i])]

----------------------------------------------------------------------------
(* POST_QUERY: src/app/blog/[slug]/page.tsx *)

\* The filter with its status test left out.
DetailFilterNoStatus(d, slug) ==
    /\ d._type = "post"
    /\ d.slug = Some(slug)

\* _type == "post" && slug.current == $slug && status == "published"
DetailFilter(d, slug) ==
    /\ d._type = "post"
    /\ d.slug = Some(slug)
    /\ d.status = "published"

DetailProjection(d) ==
    [_type |-> d._type, title |-> d.title, slug |-> d.slug,
     publishedAt |-> d.publishedAt, body |-> d.body, excerpt |-> d.excerpt,
     author |-> d.author, categories |-> d.categories,
     mainImage |-> d.mainImage, tags |-> d.tags, seo |-> d.seo,
     status |-> d.status]

\* [...][0]{...}: the first match, or null.  The query gives no order, so
\* which of several matches is first is not specified: every match is a
\* possible result.
POST_QUERY(db, slug) ==
    LET m == {d \in DOMAIN db : DetailFilter(d, slug)}
    IN  IF m = {} THEN {None} ELSE {Some(DetailProjection(d)) : d \in m}

----------------------------------------------------------------------------
(* Image URLs and the PortableText components: src/app/blog/[slug]/page.tsx *)

\* builder.image(source).width(w).height(h).url(): the URL is computed from
\* the asset reference and the requested size.  A source whose asset cannot
\* be resolved yields no URL, the case the callers test for.
urlFor(source, w, h) ==
    IF source.asset = None THEN None
    ELSE Some([ref |-> source.asset[1], w |-> w, h |-> h])

\* The image component deriving its URL at the main image's width.
imageWide(value) ==
    LET imageUrl == urlFor(value, MainImageWidth, None)
    IN  IF imageUrl = None THEN None
        ELSE Some([tag |-> "figure", src |-> imageUrl[1],
                   alt |-> IF TruthyStr(value.alt) THEN value.alt[1] ELSE "",
                   width |-> InlineImageWidth, height |-> InlineImageHeight,
                   caption |-> IF TruthyStr(value.caption)
                               THEN value.caption ELSE None])

\* components.types.image
image(value) ==
    LET imageUrl == urlFor(value, InlineImageWidth, None)
    IN  IF imageUrl = None THEN None
        ELSE Some([tag |-> "figure", src |-> imageUrl[1],
                   alt |-> IF TruthyStr(value.alt) THEN value.alt[1] ELSE "",
                   width |-> InlineImageWidth, height |-> InlineImageHeight,
                   caption |-> IF TruthyStr(value.caption)
                               THEN value.caption ELSE None])

\* components.types.code
code(value) ==
    [tag |-> "pre", code |-> value.code,
     language |-> IF TruthyStr(value.language) THEN value.language ELSE None,
     filename |-> IF TruthyStr(value.filename) THEN value.filename ELSE None]

\* components.block
BlockStyles == {"h1", "h2", "h3", "blockquote"}

\* The fragments of one block: the component registered for it, when there
\* is one.  A block with no registered component is left to the PortableText
\* library, whose handling is not part of this repository: the model keeps
\* it as a "library" fragment and says nothing about what is shown for it.
components(b) ==
    CASE b._type = "image" -> image(b)
      [] b._type = "code" -> Some(code(b))
      [] b._type = "block" /\ b.style \in BlockStyles ->
            Some([tag |-> b.style, children |-> b.text])
      [] OTHER -> Some([tag |-> "library", block |-> b])

\* <PortableText value={post.body} components={components} />
RECURSIVE PortableText(_)
PortableText(body) ==
    IF body = <<>> THEN <<>>
    ELSE components(Head(body)) \o PortableText(Tail(body))

----------------------------------------------------------------------------
(* generateMetadata and PostPage: src/app/blog/[slug]/page.tsx *)

NotFoundTitle == "Post Not Found"

\* post.seo?.field
SeoField(p, f) == IF p.seo = None THEN None ELSE p.seo[1][f]

\* generateMetadata ending its description in ?? "" instead of ?? undefined.
MetadataEmptyDescription(post) ==
    IF post = None
    THEN [title |-> Some(NotFoundTitle), description |-> None,
          keywords |-> None]
    ELSE LET p == post[1]
         IN  [title |-> Coalesce(SeoField(p, "metaTitle"), Some(p.title)),
              description |->
                  Coalesce(Coalesce(SeoField(p, "metaDescription"), p.excerpt),
                           Some("")),
              keywords |-> Coalesce(SeoField(p, "keywords"), None)]

\* The object generateMetadata returns for a fetched post (or null).
MetadataFor(post) ==
    IF post = None
    THEN [title |-> Some(NotFoundTitle), description |-> None,
          keywords |-> None]
    ELSE LET p == post[1]
         IN  [title |-> Coalesce(SeoField(p, "metaTitle"), Some(p.title)),
              description |->
                  Coalesce(Coalesce(SeoField(p, "metaDescription"), p.excerpt),
                           None),
              keywords |-> Coalesce(SeoField(p, "keywords"), None)]

\* What PostPage returns for a fetched post that is there.  Reading
\* post.author.name of a post whose author is null throws.
PostView(p) ==
    LET mainImageUrl ==
            IF p.mainImage # None
            THEN urlFor(p.mainImage[1], MainImageWidth, Some(MainImageHeight))
            ELSE None
    IN  IF p.author = None THEN [kind |-> "error", post |-> p]
        ELSE [kind |-> "rendered", post |-> p,
              mainImage |->
                  IF mainImageUrl # None
                  THEN Some([src |-> mainImageUrl[1],
                             alt |-> IF TruthyStr(p.mainImage[1].alt)
                                     THEN p.mainImage[1].alt[1] ELSE p.title,
                             caption |-> IF TruthyStr(p.mainImage[1].caption)
                                         THEN p.mainImage[1].caption ELSE None])
                  ELSE None,
              title |-> p.title,
              publishedAt |-> p.publishedAt,
              author |-> p.author[1].name,
              categories |-> IF NonEmptyArr(p.categories)
                             THEN p.categories ELSE None,
              excerpt |-> IF TruthyStr(p.excerpt) THEN p.excerpt ELSE None,
              body |-> PortableText(p.body),
              tags |-> IF NonEmptyArr(p.tags) THEN p.tags ELSE None,
              seo |-> IF p.seo # None
                      THEN Some([metaTitle |->
                                     IF TruthyStr(p.seo[1].metaTitle)
                                     THEN p.seo[1].metaTitle ELSE None,
                                 metaDescription |->
                                     IF TruthyStr(p.seo[1].metaDescription)
                                     THEN p.seo[1].metaDescription ELSE None,
                                 keywords |->
                                     IF NonEmptyArr(p.seo[1].keywords)
                                     THEN p.seo[1].keywords ELSE None])
                      ELSE None]

\* PostPage without its "if (!post)" branch: reading a field of null throws.
RenderPostUnguarded(post) ==
    IF post = None THEN [kind |-> "error"] ELSE PostView(post[1])

RenderPost(post) ==
    IF post = None THEN [kind |-> "not_found"] ELSE PostView(post[1])

----------------------------------------------------------------------------
(* BlogIndexPage: src/app/page.tsx *)

\* One card of the list.
Card(post) ==
    [title |-> post.title, href |-> post.slug[1],
     publishedAt |-> post.publishedAt, author |-> post.author[1].name,
     categories |-> IF NonEmptyArr(post.categories)
                    THEN post.categories ELSE None]

\* BlogIndexPage without its "if (!posts?.length)" branch: posts.map of null
\* throws, and an empty array is rendered as an empty list.
RenderIndexAlwaysList(posts) ==
    IF posts = None THEN [kind |-> "error"]
    ELSE IF \E i \in 1..Len(posts[1]) :
                posts[1][i].author = None \/ posts[1][i].slug = None
         THEN [kind |-> "error"]
         ELSE [kind |-> "list",
               cards |-> [i \in 1..Len(posts[1]) |-> Card(posts[1][i])]]

\* BlogIndexPage reading post.categories.length without the
\* "post.categories &&" guard: it throws for a post with no categories.
RenderIndexNoCategoryGuard(posts) ==
    IF posts = None \/ Len(posts[1]) = 0 THEN [kind |-> "no_posts"]
    ELSE IF \E i \in 1..Len(posts[1]) :
                \/ posts[1][i].author = None
                \/ posts[1][i].slug = None
                \/ posts[1][i].categories = None
         THEN [kind |-> "error"]
         ELSE [kind |-> "list",
               cards |-> [i \in 1..Len(posts[1]) |-> Card(posts[1][i])]]

\* What BlogIndexPage returns for the fetched posts.  Reading
\* post.slug.current or post.author.name of a null throws.
RenderIndex(posts) ==
    IF posts = None \/ Len(posts[1]) = 0 THEN [kind |-> "no_posts"]
    ELSE IF \E i \in 1..Len(posts[1]) :
                posts[1][i].author = None \/ posts[1][i].slug = None
         THEN [kind |-> "error"]
         ELSE [kind |-> "list",
               cards |-> [i \in 1..Len(posts[1]) |-> Card(posts[1][i])]]

----------------------------------------------------------------------------
(* The Sanity client: src/unnamed/part_000 *)

client ==
    [projectId |-> Some("ppql4ntm"), dataset |-> Some("production"),
     apiVersion |-> "2024-01-01", useCdn |-> FALSE]

\* if (!projectId || !dataset) throw ...: the detail module loads only with
\* both identifiers.
ModuleLoaded == ~(~TruthyStr(client.projectId) \/ ~TruthyStr(client.dataset))

----------------------------------------------------------------------------
(* The content lake, which only the CMS changes *)

CmsCreate(d) ==
    /\ BagCardinality(cms) < MaxPosts
    /\ cms' = cms (+) SetToBag({d})
    /\ UNCHANGED <<cachePosts, cachePost, req, metadata, page, indexView>>

CmsDelete(d) ==
    /\ d \in DOMAIN cms
    /\ cms' = cms (-) SetToBag({d})
    /\ UNCHANGED <<cachePosts, cachePost, req, metadata, page, indexView>>

\* An edit: publish, unpublish, archive, change of slug.
CmsPatch(d, e) ==
    /\ d \in DOMAIN cms
    /\ e # d
    /\ e._type = d._type
    /\ cms' = (cms (-) SetToBag({d})) (+) SetToBag({e})
    /\ UNCHANGED <<cachePosts, cachePost, req, metadata, page, indexView>>

----------------------------------------------------------------------------
(* The data cache of client.fetch(..., { next: { revalidate: 30 } }): a     *)
(* query is answered from its entry when there is one; an entry older than *)
(* the window is replaced by a fresh result.  Time is not modelled: an     *)
(* entry may be replaced at any moment.                                    *)

RevalidatePosts ==
    /\ cachePosts # None
    /\ cachePosts' = Some(POSTS_QUERY(cms))
    /\ UNCHANGED <<cms, cachePost, req, metadata, page, indexView>>

RevalidatePost(slug) ==
    /\ cachePost[slug] # None
    /\ \E r \in POST_QUERY(cms, slug) :
           cachePost' = [cachePost EXCEPT ![slug] = Some(r)]
    /\ UNCHANGED <<cms, cachePosts, req, metadata, page, indexView>>

\* client.fetch(POST_QUERY, params, { next: { revalidate: 30 } }) yields r.
FetchPost(slug, r) ==
    IF cachePost[slug] # None
    THEN r = cachePost[slug][1] /\ cachePost' = cachePost
    ELSE r \in POST_QUERY(cms, slug)
         /\ cachePost' = [cachePost EXCEPT ![slug] = Some(r)]

FetchResults(slug) ==
    IF cachePost[slug] # None THEN {cachePost[slug][1]}
    ELSE POST_QUERY(cms, slug)

----------------------------------------------------------------------------
(* The views *)

BlogIndexPage ==
    /\ IF cachePosts # None
       THEN /\ cachePosts' = cachePosts
            /\ indexView' = Some(RenderIndex(cachePosts))
       ELSE /\ cachePosts' = Some(POSTS_QUERY(cms))
            /\ indexView' = Some(RenderIndex(Some(POSTS_QUERY(cms))))
    /\ UNCHANGED <<cms, cachePost, req, metadata, page>>

\* A request for /blog/<slug> arrives; the framework then calls
\* generateMetadata and PostPage for it, in either order.
StartRequest(slug) ==
    /\ req = None \/ (metadata # None /\ page # None)
    /\ req' = Some(slug)
    /\ metadata' = None
    /\ page' = None
    /\ UNCHANGED <<cms, cachePosts, cachePost, indexView>>

generateMetadata ==
    /\ ModuleLoaded
    /\ req # None
    /\ metadata = None
    /\ \E r \in FetchResults(req[1]) :
           /\ FetchPost(req[1], r)
           /\ metadata' = Some(MetadataFor(r))
    /\ UNCHANGED <<cms, cachePosts, req, page, indexView>>

PostPage ==
    /\ ModuleLoaded
    /\ req # None
    /\ page = None
    /\ \E r \in FetchResults(req[1]) :
           /\ FetchPost(req[1], r)
           /\ page' = Some(RenderPost(r))
    /\ UNCHANGED <<cms, cachePosts, req, metadata, indexView>>

----------------------------------------------------------------------------
(* Specifications *)

NoViews ==
    /\ cachePosts = None
    /\ cachePost = [s \in Slugs |-> None]
    /\ req = None
    /\ metadata = None
    /\ page = None
    /\ indexView = None

\* The default specification: a small content lake that the CMS changes
\* while both views are served through the cache.
Init ==
    /\ cms = EmptyBag
    /\ NoViews

Next ==
    \/ \E d \in SpecDocs : CmsCreate(d)
    \/ \E d \in SpecDocs : CmsDelete(d)
    \/ \E d \in SpecDocs, e \in SpecDocs : CmsPatch(d, e)
    \/ RevalidatePosts
    \/ \E slug \in Slugs : RevalidatePost(slug)
    \/ BlogIndexPage
    \/ \E slug \in Slugs : StartRequest(slug)
    \/ generateMetadata
    \/ PostPage

Spec == Init /\ [][Next]_vars

\* The index view over a large content lake that does not change: up to
\* MaxIndexPosts documents, more than the query's limit, with equal and
\* distinct publication dates, a later draft and an undated post.
IndexDocs ==
    <<[BaseDoc EXCEPT !.publishedAt = Some(1)],
      [BaseDoc EXCEPT !.publishedAt = Some(2), !.title = "t2"],
      [BaseDoc EXCEPT !.publishedAt = Some(3), !.title = "t3"],
      [BaseDoc EXCEPT !.publishedAt = Some(4), !.status = "draft"],
      [BaseDoc EXCEPT !.publishedAt = None]>>

IndexBags ==
    {[d \in {IndexDocs[i] : i \in {j \in 1..5 : c[j] > 0}} |->
          c[CHOOSE i \in 1..5 : IndexDocs[i] = d]] :
        c \in {x \in [1..5 -> 0..MaxIndexPosts] :
                  x[1] + x[2] + x[3] + x[4] + x[5] <= MaxIndexPosts}}

InitIndex ==
    /\ cms \in IndexBags
    /\ NoViews

NextIndex ==
    \/ BlogIndexPage
    \/ RevalidatePosts

SpecIndex == InitIndex /\ [][NextIndex]_vars

\* Rendering one published post: every combination of its optional fields,
\* every body of up to MaxBody blocks, and a post whose author reference
\* does not resolve.
OptStrings(v) == {None, Some(v)}
OptArrays(v) == {None, Some(<<>>), Some(<<v>>)}

Images ==
    [asset : {None, Some("image-1")}, alt : OptStrings("alt"),
     caption : OptStrings("cap")]

Seos ==
    [metaTitle : OptStrings("mt"), metaDescription : {None, Some(""), Some("md")},
     keywords : OptArrays("k")]

Blocks ==
    {[_type |-> "image", asset |-> Some("image-2"), alt |-> Some("x"),
      caption |-> None],
     [_type |-> "image", asset |-> Some("image-3"), alt |-> None,
      caption |-> Some("cap")],
     [_type |-> "image", asset |-> None, alt |-> Some("x"), caption |-> None],
     [_type |-> "code", code |-> "let x", filename |-> Some("a.ts"),
      language |-> Some("ts")],
     [_type |-> "code", code |-> "let y", filename |-> None, language |-> None],
     [_type |-> "block", style |-> "h1", text |-> "Intro"],
     [_type |-> "block", style |-> "normal", text |-> "text"],
     [_type |-> "table", rows |-> 1]}

Bodies == UNION {[1..n -> Blocks] : n \in 0..MaxBody}

OptionalDocs ==
    {[BaseDoc EXCEPT !.excerpt = ex, !.mainImage = mi, !.categories = ca,
                     !.tags = ta, !.seo = se] :
        ex \in {None, Some(""), Some("ex")},
        mi \in {None} \cup {Some(i) : i \in Images},
        ca \in OptArrays("c"),
        ta \in OptArrays("t"),
        se \in {None} \cup {Some(x) : x \in Seos}}

BodyDocs == {[BaseDoc EXCEPT !.body = b] : b \in Bodies}

AuthorlessDocs ==
    {[BaseDoc EXCEPT !.author = None, !.categories = ca] :
        ca \in OptArrays("c")}

RenderDocs == OptionalDocs \cup BodyDocs \cup AuthorlessDocs

InitRender ==
    /\ cms \in {SetToBag({d}) : d \in RenderDocs}
    /\ NoViews

NextRender ==
    \/ BlogIndexPage
    \/ StartRequest("a")
    \/ generateMetadata
    \/ PostPage

SpecRender == InitRender /\ [][NextRender]_vars

----------------------------------------------------------------------------
(* Claims *)

\* What the specification calls an eligible post.
Eligible(d) ==
    /\ d._type = "post"
    /\ d.slug # None
    /\ d.publishedAt # None
    /\ d.status = "published"

Dates == {IndexDocs[i].publishedAt : i \in 1..5} \ {None}

EligibleCount(t) ==
    BagCardinality([d \in {x \in DOMAIN cms :
                                Eligible(x) /\ x.publishedAt = t} |-> cms[d]])

EligibleTotal ==
    BagCardinality([d \in {x \in DOMAIN cms : Eligible(x)} |-> cms[d]])

CardCount(cards, t) ==
    Cardinality({i \in 1..Len(cards) : cards[i].publishedAt = t})

\* The cards are the first PostsLimit eligible posts, latest first: as many
\* as there are eligible posts up to the limit, no more of a date than the
\* lake holds, and a date is cut short only if no earlier date is listed.
FirstOfEligible(cards) ==
    /\ Len(cards) =
          IF EligibleTotal < PostsLimit THEN EligibleTotal ELSE PostsLimit
    /\ \A t \in Dates : CardCount(cards, t) <= EligibleCount(t)
    /\ \A i \in 1..Len(cards) : cards[i].publishedAt \in Dates
    /\ \A t \in Dates, u \in Dates :
           (CardCount(cards, t) < EligibleCount(t) /\ u[1] < t[1])
               => CardCount(cards, u) = 0

\* C1 as stated: the index view lists at most 12 entries, the first 12 of
\* the eligible posts, each entry's publishedAt strictly later than the
\* next entry's.
C1_StrictlyDescending ==
    (indexView # None /\ indexView[1].kind = "list") =>
        LET cards == indexView[1].cards
        IN  /\ Len(cards) <= 12
            /\ FirstOfEligible(cards)
            /\ \A i \in 1..(Len(cards) - 1) :
                   cards[i].publishedAt[1] > cards[i + 1].publishedAt[1]

\* C1 as amended: the index view lists at most 12 entries, the first 12 of
\* the eligible posts, each entry's publishedAt later than or equal to the
\* next entry's (posts of equal publishedAt are listed next to each other).
C1_Descending ==
    (indexView # None /\ indexView[1].kind = "list") =>
        LET cards == indexView[1].cards
        IN  /\ Len(cards) <= 12
            /\ FirstOfEligible(cards)
            /\ \A i \in 1..(Len(cards) - 1) :
                   cards[i].publishedAt[1] >= cards[i + 1].publishedAt[1]

\* More eligible posts than the limit, of two dates at least, and a later
\* draft: the list is cut to 12 and the draft is not on it.
C1_Witness ==
    /\ indexView # None
    /\ indexView[1].kind = "list"
    /\ Len(indexView[1].cards) = 12
    /\ EligibleTotal > 12
    /\ \E i \in 1..11 : indexView[1].cards[i].publishedAt
                            # indexView[1].cards[i + 1].publishedAt
    /\ \E d \in DOMAIN cms : d.status = "draft"

\* A step in which PostPage, generateMetadata, BlogIndexPage returns.
PageReturns == page = None /\ page' # None
MetadataReturns == metadata = None /\ metadata' # None
IndexReturns == indexView' # indexView

Published(db) == {d \in DOMAIN db : d.status = "published"}

NoMatch(slug) ==
    \/ cachePost[slug] = Some(None)
    \/ /\ cachePost[slug] = None
       /\ ~\E d \in DOMAIN cms :
              d._type = "post" /\ d.slug = Some(slug) /\ d.status = "published"

\* C3: when the detail query matches no published post, PostPage returns
\* the "not found" view, which holds no post content, and generateMetadata
\* returns the title "Post Not Found" and nothing else; neither fails.
C3_NotFound ==
    [][/\ (PageReturns /\ NoMatch(req[1])) =>
              page'[1] = [kind |-> "not_found"]
       /\ (MetadataReturns /\ NoMatch(req[1])) =>
              metadata'[1] = [title |-> Some("Post Not Found"),
                              description |-> None, keywords |-> None]
      ]_vars

\* A request for a slug no post has, and one for the slug of a draft, both
\* served.
C3_Witness ==
    /\ req = Some("b")
    /\ page = Some([kind |-> "not_found"])
    /\ metadata # None
    /\ metadata[1].title = Some("Post Not Found")
    /\ cachePost["a"] = Some(None)
    /\ \E d \in DOMAIN cms : d.status = "draft" /\ d.slug = Some("a")

\* C5: when the index query yields no post, BlogIndexPage returns the
\* "No posts found." view, which is not the list view; the list view is
\* returned only for at least one post, and then holds one card per post.
C5_NoPosts ==
    [][IndexReturns =>
           /\ cachePosts' # None
           /\ (Len(cachePosts'[1]) = 0) <=> (indexView'[1].kind = "no_posts")
           /\ indexView'[1].kind = "no_posts" =>
                  indexView'[1] = [kind |-> "no_posts"]
           /\ indexView'[1].kind = "list" =>
                  /\ Len(indexView'[1].cards) >= 1
                  /\ Len(indexView'[1].cards) = Len(cachePosts'[1])
           /\ RenderIndex(None) = [kind |-> "no_posts"]
      ]_vars

\* The lake holds posts, none of them eligible, and the index view has been
\* served.
C5_Witness ==
    /\ cms # EmptyBag
    /\ cachePosts = Some(<<>>)
    /\ indexView = Some([kind |-> "no_posts"])

\* C10 as stated: for one detail request, generateMetadata returns the
\* "Post Not Found" title if and only if PostPage returns the "not found"
\* view, and otherwise its title is that of the post PostPage renders.
C10_MetadataAgreesWithPage ==
    (req # None /\ metadata # None /\ page # None) =>
        /\ (metadata[1].title = Some(NotFoundTitle))
               <=> (page[1].kind = "not_found")
        /\ page[1].kind = "rendered" =>
               metadata[1].title = Some(page[1].post.title)

\* The one post of the lake, in the specification that renders one post.
ThePost == CHOOSE d \in DOMAIN cms : TRUE

\* C4: with no SEO description override, the description generateMetadata
\* returns is the post's excerpt when the post has one and is absent
\* otherwise, not an empty string; with an override, it is the override.
C4_Description ==
    (metadata # None /\ req = Some("a")) =>
        LET d == ThePost
            override == IF d.seo = None THEN None
                        ELSE d.seo[1].metaDescription
            description == metadata[1].description
        IN  /\ override # None => description = override
            /\ (override = None /\ d.excerpt # None) =>
                   description = d.excerpt
            /\ (override = None /\ d.excerpt = None) =>
                   (description = None /\ description # Some(""))

\* A post with SEO data but no description override and no excerpt: the
\* description is absent.
C4_Witness ==
    /\ metadata # None
    /\ ThePost.seo # None
    /\ ThePost.seo[1].metaDescription = None
    /\ ThePost.seo[1].metaTitle # None
    /\ ThePost.excerpt = None
    /\ metadata[1].description = None
    /\ metadata[1].title = ThePost.seo[1].metaTitle

\* C6: for every combination of absent optional fields of a post whose
\* required fields are there, PostPage returns the rendered view, the index
\* view the list and generateMetadata its object, each with the fragment of
\* an absent field left out; no absence is an error.
C6_OptionalFields ==
    LET d == ThePost
    IN  d.author # None =>
        /\ page # None =>
              /\ page[1].kind = "rendered"
              /\ d.excerpt = None => page[1].excerpt = None
              /\ d.mainImage = None => page[1].mainImage = None
              /\ (d.mainImage # None /\ page[1].mainImage # None) =>
                    /\ d.mainImage[1].caption = None =>
                           page[1].mainImage[1].caption = None
                    /\ d.mainImage[1].alt = None =>
                           page[1].mainImage[1].alt = d.title
              /\ d.categories = None => page[1].categories = None
              /\ d.tags = None => page[1].tags = None
              /\ d.seo = None => page[1].seo = None
              /\ d.seo # None =>
                    /\ page[1].seo # None
                    /\ \A f \in {"metaTitle", "metaDescription", "keywords"} :
                           d.seo[1][f] = None => page[1].seo[1][f] = None
        /\ indexView # None =>
              /\ indexView[1].kind = "list"
              /\ d.categories = None => indexView[1].cards[1].categories = None
        /\ metadata # None =>
              /\ (d.seo = None \/ d.seo[1].metaTitle = None) =>
                     metadata[1].title = Some(d.title)
              /\ (d.seo = None \/ d.seo[1].keywords = None) =>
                     metadata[1].keywords = None

\* A post with none of its optional fields, served by both views and the
\* metadata hook.
C6_Witness ==
    /\ ThePost.excerpt = None
    /\ ThePost.mainImage = None
    /\ ThePost.categories = None
    /\ ThePost.tags = None
    /\ ThePost.seo = None
    /\ page # None
    /\ page[1].kind = "rendered"
    /\ indexView # None
    /\ indexView[1].kind = "list"
    /\ metadata # None

IsFigure(f) == f.tag = "figure"
IsResolvableImage(b) == b._type = "image" /\ b.asset # None
IsUnresolvableImage(b) == b._type = "image" /\ b.asset = None

\* C8: an image block whose asset resolves is rendered as a figure whose
\* URL is derived from that asset at width 800; an image block for which no
\* URL is derived yields no fragment, and the page and its other blocks are
\* still rendered.
C8_InlineImages ==
    (page # None /\ ThePost.author # None) =>
        LET body == ThePost.body
            figures == SelectSeq(page[1].body, IsFigure)
            images == SelectSeq(body, IsResolvableImage)
        IN  /\ page[1].kind = "rendered"
            /\ Len(figures) = Len(images)
            /\ \A i \in 1..Len(images) :
                   figures[i].src =
                       [ref |-> images[i].asset[1], w |-> 800, h |-> None]
            /\ Len(page[1].body) =
                   Len(body) - Len(SelectSeq(body, IsUnresolvableImage))

\* A body of an image that resolves and one that does not: one figure.
C8_Witness ==
    /\ page # None
    /\ page[1].kind = "rendered"
    /\ Len(ThePost.body) = 2
    /\ IsResolvableImage(ThePost.body[1])
    /\ IsUnresolvableImage(ThePost.body[2])
    /\ Len(page[1].body) = 1
    /\ page[1].body[1].src.w = 800

====
